---- MODULE Spec2Model ----
(***************************************************************************)
(* pngme: the PNG chunk codec.  ChunkType (src/src/chunk_type.rs), Chunk   *)
(* (src/src/chunk.rs) and the command layer (src/src/main.rs) are modelled *)
(* from the source; the Png container (png.rs, absent from the tree) is    *)
(* modelled from the written specification.                                *)
(*                                                                         *)
(* Bytes are integers 0..255, byte slices are sequences of bytes, strings  *)
(* are sequences of Unicode code points, and a u32 is a record of its two  *)
(* 16-bit halves, hi and lo.                                               *)
(***************************************************************************)
EXTENDS Integers, Sequences, FiniteSets, TLC

VARIABLES usize_bytes, file, png, op, input, result

vars == <<usize_bytes, file, png, op, input, result>>

----------------------------------------------------------------------------
(* Bounds of the model.                                                    *)

\* longest chunk payload drawn as an input
MaxData == 2
\* most chunks held by a container
MaxChunks == 2
\* longest string (in characters) drawn as an input
MaxStrLen == 4

----------------------------------------------------------------------------
(* Machine arithmetic.                                                     *)

RECURSIVE Pow2(_)
Pow2(n) == IF n = 0 THEN 1 ELSE 2 * Pow2(n - 1)

\* bit i of the byte b
Bit(b, i) == (b \div Pow2(i)) % 2

\* u8 & u8
BitAnd(a, b) ==
  LET RECURSIVE go(_)
      go(i) == IF i = 8 THEN 0
               ELSE Bit(a, i) * Bit(b, i) * Pow2(i) + go(i + 1)
  IN go(0)

\* usize::to_be_bytes on a target whose usize is w bytes wide
RECURSIVE ShiftRightBytes(_, _)
ShiftRightBytes(n, k) == IF k = 0 THEN n ELSE ShiftRightBytes(n \div 256, k - 1)

usize_to_be_bytes(n, w) == [k \in 1..w |-> ShiftRightBytes(n, w - k) % 256]

\* a length as a u32 (let data_length: u32 = 42)
u32_of(n) == [hi |-> (n \div 65536) % 65536, lo |-> n % 65536]

\* u32::to_be_bytes
u32_to_be_bytes(x) == <<x.hi \div 256, x.hi % 256, x.lo \div 256, x.lo % 256>>

\* u32::from_be_bytes
u32_from_be_bytes(b) == [hi |-> b[1] * 256 + b[2], lo |-> b[3] * 256 + b[4]]

\* a ^ b on the low n bits
RECURSIVE XorBits(_, _, _)
XorBits(a, b, n) ==
  IF n = 0 THEN 0 ELSE ((a + b) % 2) + 2 * XorBits(a \div 2, b \div 2, n - 1)

Xor32(a, b) == [hi |-> XorBits(a.hi, b.hi, 16), lo |-> XorBits(a.lo, b.lo, 16)]

\* x >> 1
Shr1(x) == [hi |-> x.hi \div 2, lo |-> (x.lo \div 2) + (x.hi % 2) * 32768]

\* the n low bits of a in reverse order
RECURSIVE ReverseBits(_, _)
ReverseBits(a, n) ==
  IF n = 0 THEN 0 ELSE (a % 2) * Pow2(n - 1) + ReverseBits(a \div 2, n - 1)

----------------------------------------------------------------------------
(* CRC-32/ISO-HDLC as the crc crate computes it: width 32, polynomial      *)
(* 0x04c11db7, init 0xffffffff, reflected input and output, xorout         *)
(* 0xffffffff.                                                             *)

\* 0x04c11db7
CRC_32_ISO_HDLC_poly == [hi |-> 1217, lo |-> 7607]

\* the polynomial with its 32 bits reversed
ReflectedPoly ==
  [hi |-> ReverseBits(CRC_32_ISO_HDLC_poly.lo, 16),
   lo |-> ReverseBits(CRC_32_ISO_HDLC_poly.hi, 16)]

\* n steps of the reflected shift register: shift right, and xor the
\* polynomial in when the bit shifted out is set
RECURSIVE CrcShifts(_, _)
CrcShifts(c, n) ==
  IF n = 0 THEN c
  ELSE IF c.lo % 2 = 1 THEN CrcShifts(Xor32(Shr1(c), ReflectedPoly), n - 1)
  ELSE CrcShifts(Shr1(c), n - 1)

\* feed one byte
CrcUpdate(c, b) == CrcShifts([hi |-> c.hi, lo |-> XorBits(c.lo, b, 16)], 8)

RECURSIVE CrcFeed(_, _, _)
CrcFeed(c, bs, k) ==
  IF k > Len(bs) THEN c ELSE CrcFeed(CrcUpdate(c, bs[k]), bs, k + 1)

checksum(bs) ==
  LET c == CrcFeed([hi |-> 65535, lo |-> 65535], bs, 1)
  IN [hi |-> 65535 - c.hi, lo |-> 65535 - c.lo]

----------------
(* Strings: &str is valid UTF-8; a string is the sequence of its code      *)
(* points and its bytes are their UTF-8 encoding.                          *)

Utf8Encode(cp) ==
  IF cp < 128 THEN <<cp>>
  ELSE IF cp < 2048 THEN <<192 + (cp \div 64), 128 + (cp % 64)>>
  ELSE IF cp < 65536
       THEN <<224 + (cp \div 4096), 128 + ((cp \div 64) % 64), 128 + (cp % 64)>>
  ELSE <<240 + (cp \div 262144), 128 + ((cp \div 4096) % 64),
         128 + ((cp \div 64) % 64), 128 + (cp % 64)>>

\* str::bytes / str::as_bytes
RECURSIVE str_bytes(_)
str_bytes(s) == IF s = <<>> THEN <<>> ELSE Utf8Encode(Head(s)) \o str_bytes(Tail(s))

\* str::len: the length in bytes
str_len(s) == Len(str_bytes(s))

REPLACEMENT_CHARACTER == 65533

IsCont(bs, k) == k <= Len(bs) /\ bs[k] >= 128 /\ bs[k] <= 191

\* the second byte of a 3- or 4-byte sequence has a range that depends on the first
SecondOk(bs, k) ==
  /\ k + 1 <= Len(bs)
  /\ LET b == bs[k]  c == bs[k + 1]
     IN CASE b = 224 -> c >= 160 /\ c <= 191
          [] b = 237 -> c >= 128 /\ c <= 159
          [] b = 240 -> c >= 144 /\ c <= 191
          [] b = 244 -> c >= 128 /\ c <= 143
          [] OTHER   -> c >= 128 /\ c <= 191

\* String::from_utf8_lossy: every maximal invalid part becomes U+FFFD
RECURSIVE from_utf8_lossy_at(_, _)
from_utf8_lossy_at(bs, k) ==
  IF k > Len(bs) THEN <<>>
  ELSE LET b == bs[k] IN
    IF b < 128 THEN <<b>> \o from_utf8_lossy_at(bs, k + 1)
    ELSE IF b >= 194 /\ b <= 223 THEN
      IF IsCont(bs, k + 1)
      THEN <<(b - 192) * 64 + (bs[k + 1] - 128)>> \o from_utf8_lossy_at(bs, k + 2)
      ELSE <<REPLACEMENT_CHARACTER>> \o from_utf8_lossy_at(bs, k + 1)
    ELSE IF b >= 224 /\ b <= 239 THEN
      IF ~SecondOk(bs, k)
      THEN <<REPLACEMENT_CHARACTER>> \o from_utf8_lossy_at(bs, k + 1)
      ELSE IF ~IsCont(bs, k + 2)
      THEN <<REPLACEMENT_CHARACTER>> \o from_utf8_lossy_at(bs, k + 2)
      ELSE <<(b - 224) * 4096 + (bs[k + 1] - 128) * 64 + (bs[k + 2] - 128)>>
           \o from_utf8_lossy_at(bs, k + 3)
    ELSE IF b >= 240 /\ b <= 244 THEN
      IF ~SecondOk(bs, k)
      THEN <<REPLACEMENT_CHARACTER>> \o from_utf8_lossy_at(bs, k + 1)
      ELSE IF ~IsCont(bs, k + 2)
      THEN <<REPLACEMENT_CHARACTER>> \o from_utf8_lossy_at(bs, k + 2)
      ELSE IF ~IsCont(bs, k + 3)
      THEN <<REPLACEMENT_CHARACTER>> \o from_utf8_lossy_at(bs, k + 3)
      ELSE <<(b - 240) * 262144 + (bs[k + 1] - 128) * 4096 + (bs[k + 2] - 128) * 64
             + (bs[k + 3] - 128)>> \o from_utf8_lossy_at(bs, k + 4)
    ELSE <<REPLACEMENT_CHARACTER>> \o from_utf8_lossy_at(bs, k + 1)

from_utf8_lossy(bs) == from_utf8_lossy_at(bs, 1)

----------------------------------------------------------------------------
(* Results.  A call returns Ok(value), Err(kind) or does not return        *)
(* (panics).  The error structs of the source carry only a message; the    *)
(* kind names the message.                                                 *)

Ok(v) == [kind |-> "Ok", err |-> "", val |-> v]
Err(e) == [kind |-> "Err", err |-> e, val |-> <<>>]
Panic == [kind |-> "Panic", err |-> "", val |-> <<>>]

----------------------------------------------------------------------------
(* ChunkType: struct ChunkType([u8; 4]), a 4-tuple of bytes.               *)

\* u8::is_ascii_alphabetic
is_ascii_alphabetic(b) == (b >= 65 /\ b <= 90) \/ (b >= 97 /\ b <= 122)

bytes(t) == t

is_critical(t) == BitAnd(t[1], 32) = 0

is_public(t) == BitAnd(t[2], 32) = 0

\* the reserved bit ignored: every tag is valid
is_reserved_bit_valid_always(t) == TRUE

is_reserved_bit_valid(t) == BitAnd(t[3], 32) = 0

is_safe_to_copy(t) == BitAnd(t[4], 32) = 32

is_valid(t) == is_reserved_bit_valid(t)

\* a constructor that skips the validation
ChunkType_unchecked(value) == Ok(value)

\* impl TryFrom<[u8; 4]> for ChunkType
ChunkType_try_from(value) ==
  IF \E i \in 1..4 : ~is_ascii_alphabetic(value[i])
  THEN Err("InvalidChunkType")
  ELSE Ok(value)

\* from_str that counts characters instead of bytes
ChunkType_from_str_chars(s) ==
  IF Len(s) = 4
  THEN LET b == [i \in 1..4 |-> str_bytes(s)[i]] IN ChunkType_try_from(b)
  ELSE Err("InvalidLength")

\* impl FromStr for ChunkType
ChunkType_from_str(s) ==
  IF str_len(s) = 4
  THEN LET b == [i \in 1..4 |-> str_bytes(s)[i]] IN ChunkType_try_from(b)
  ELSE Err("InvalidLength")

\* a rendering with the Debug form of the string, which quotes it
ChunkType_to_string_quoted(t) == <<34>> \o from_utf8_lossy(t) \o <<34>>

\* impl Display for ChunkType
ChunkType_to_string(t) == from_utf8_lossy(t)

----------------------------------------------------------------------------
(* Chunk: struct Chunk { chunk_type: ChunkType, data: Vec<u8> }.           *)

Chunk_new(chunk_type, data) == [chunk_type |-> chunk_type, data |-> data]

length(self) == Len(self.data)

chunk_type(self) == self.chunk_type

data(self) == self.data

crc(self) ==
  LET to_checksum == bytes(self.chunk_type) \o data(self)
  IN checksum(to_checksum)

\* length() is a usize: its big-endian bytes are as many as the target's usize
as_bytes(self) ==
  LET byte_str0 == usize_to_be_bytes(length(self), usize_bytes)
      byte_str1 == byte_str0 \o data(self)
      byte_str2 == byte_str1 \o u32_to_be_bytes(crc(self))
  IN byte_str2

\* try_from that compares the checksum before it validates the type
Chunk_try_from_crc_first(value) ==
  IF Len(value) < 4 THEN Err("TooShort")
  ELSE
    LET raw_type == SubSeq(value, 1, 4)
        raw_data == SubSeq(value, 5, Len(value))
    IN IF Len(raw_data) < 4 THEN Panic
       ELSE
         LET chunk == Chunk_new(raw_type, SubSeq(raw_data, 1, Len(raw_data) - 4))
             stored == SubSeq(raw_data, Len(raw_data) - 3, Len(raw_data))
         IN IF crc(chunk) # u32_from_be_bytes(stored) THEN Err("ChecksumMismatch")
            ELSE IF ChunkType_try_from(raw_type).kind = "Err" THEN Err("InvalidChunkType")
            ELSE Ok(chunk)

\* impl TryFrom<&[u8]> for Chunk.  raw_data.len() - 4 underflows when fewer
\* than 4 bytes follow the type: the subtraction panics where overflow
\* checks are on, and wraps to an out-of-range slice index, which panics,
\* where they are off.
Chunk_try_from(value) ==
  IF Len(value) < 4 THEN Err("TooShort")
  ELSE
    LET raw_type == SubSeq(value, 1, 4)
        raw_data == SubSeq(value, 5, Len(value))
    IN IF Len(raw_type) # 4 THEN Err("InvalidChunk")
       ELSE LET ct == ChunkType_try_from(raw_type) IN
         IF ct.kind = "Err" THEN Err("InvalidChunkType")
         ELSE IF Len(raw_data) < 4 THEN Panic
         ELSE
           LET chunk == Chunk_new(ct.val, SubSeq(raw_data, 1, Len(raw_data) - 4))
               stored == SubSeq(raw_data, Len(raw_data) - 3, Len(raw_data))
           IN IF Len(stored) # 4 THEN Err("InvalidChecksumLength")
              ELSE IF crc(chunk) # u32_from_be_bytes(stored)
                   THEN Err("ChecksumMismatch")
                   ELSE Ok(chunk)

----------------------------------------------------------------------------
(* Inputs.                                                                 *)

SeqsUpTo(S, n) == UNION {[1..k -> S] : k \in 0..n}

\* usize is 8 bytes on a 64-bit target and 4 on a 32-bit one
UsizeWidths == {4, 8}

\* bytes at and around the edges of A-Z and a-z, a digit and a non-ASCII byte
TypeBytes == {49, 64, 65, 90, 91, 97, 122, 123, 233}

TypeArrays == [1..4 -> TypeBytes]

\* 'A', 'z', '1', U+00E9 (2 bytes in UTF-8), U+20AC (3 bytes)
StrChars == {65, 122, 49, 233, 8364}

Strings == SeqsUpTo(StrChars, MaxStrLen)

\* the ChunkTypes among TypeArrays
ChunkTypes == {b \in TypeArrays : ChunkType_try_from(b).kind = "Ok"}

Idle == op = "idle"

Call(o, i, r) == op' = o /\ input' = i /\ result' = r

\* the caller drops the returned value
Return ==
  /\ op # "idle"
  /\ Call("idle", <<>>, <<>>)
  /\ UNCHANGED <<usize_bytes, file, png>>

----------------------------------------------------------------------------
(* ChunkType operations.                                                   *)

TypeTryFrom(b) ==
  /\ Idle
  /\ Call("ChunkType::try_from", b, ChunkType_try_from(b))
  /\ UNCHANGED <<usize_bytes, file, png>>

TypeFromStr(s) ==
  /\ Idle
  /\ Call("ChunkType::from_str", s, ChunkType_from_str(s))
  /\ UNCHANGED <<usize_bytes, file, png>>

\* a ChunkType was constructed by the last call
Constructed ==
  /\ op \in {"ChunkType::try_from", "ChunkType::from_str"}
  /\ result.kind = "Ok"

TypeBytesOf ==
  /\ Constructed
  /\ Call("ChunkType::bytes", result.val, bytes(result.val))
  /\ UNCHANGED <<usize_bytes, file, png>>

TypeIsValid ==
  /\ Constructed
  /\ Call("ChunkType::is_valid", result.val, is_valid(result.val))
  /\ UNCHANGED <<usize_bytes, file, png>>

TypeIsCritical ==
  /\ Constructed
  /\ Call("ChunkType::is_critical", result.val, is_critical(result.val))
  /\ UNCHANGED <<usize_bytes, file, png>>

TypeIsPublic ==
  /\ Constructed
  /\ Call("ChunkType::is_public", result.val, is_public(result.val))
  /\ UNCHANGED <<usize_bytes, file, png>>

TypeIsReservedBitValid ==
  /\ Constructed
  /\ Call("ChunkType::is_reserved_bit_valid", result.val, is_reserved_bit_valid(result.val))
  /\ UNCHANGED <<usize_bytes, file, png>>

TypeIsSafeToCopy ==
  /\ Constructed
  /\ Call("ChunkType::is_safe_to_copy", result.val, is_safe_to_copy(result.val))
  /\ UNCHANGED <<usize_bytes, file, png>>

TypeToString ==
  /\ Constructed
  /\ Call("ChunkType::to_string", result.val, ChunkType_to_string(result.val))
  /\ UNCHANGED <<usize_bytes, file, png>>

STANDARD_HEADER == <<137, 80, 78, 71, 13, 10, 26, 10>>

EmptyPng == [header |-> STANDARD_HEADER, chunks |-> <<>>]

InitChunkType ==
  /\ usize_bytes \in UsizeWidths
  /\ file = STANDARD_HEADER
  /\ png = EmptyPng
  /\ op = "idle" /\ input = <<>> /\ result = <<>>

NextChunkType ==
  \/ \E b \in TypeArrays : TypeTryFrom(b)
  \/ \E s \in Strings : TypeFromStr(s)
  \/ TypeBytesOf
  \/ TypeIsValid
  \/ TypeIsCritical
  \/ TypeIsPublic
  \/ TypeIsReservedBitValid
  \/ TypeIsSafeToCopy
  \/ TypeToString
  \/ Return

SpecChunkType == InitChunkType /\ [][NextChunkType]_vars

----------------------------------------------------------------------------
(* Chunk operations.                                                       *)

\* 'A' and 't': tags over them have every combination of the property bits
TagLetters == {65, 116}

Tags == [1..4 -> TagLetters]

\* payload bytes
DataBytes == {0, 65, 255}

Payloads == SeqsUpTo(DataBytes, MaxData)

\* type fields of the slices handed to Chunk::try_from: letters or not
SliceTypeBytes == {65, 116, 49}

\* the last byte of a CRC field with its low bit flipped
Corrupt(c) == [c EXCEPT ![4] = IF c[4] % 2 = 0 THEN c[4] + 1 ELSE c[4] - 1]

\* slices too short to hold a type and a CRC
ShortSlices == SeqsUpTo({0, 65}, 7)

\* slices t ++ d ++ c where c is the CRC of t ++ d, a corrupted CRC, or zeros
FramedSlices ==
  UNION {
    LET good == u32_to_be_bytes(checksum(t \o d))
    IN {t \o d \o c : c \in {good, Corrupt(good), <<0, 0, 0, 0>>}}
    : t \in [1..4 -> SliceTypeBytes], d \in Payloads }

Slices == ShortSlices \cup FramedSlices

ChunkAsBytes(t, d) ==
  /\ Idle
  /\ LET chunk == Chunk_new(t, d)
     IN Call("Chunk::as_bytes", chunk, as_bytes(chunk))
  /\ UNCHANGED <<usize_bytes, file, png>>

ChunkTryFrom(value) ==
  /\ Idle
  /\ Call("Chunk::try_from", value, Chunk_try_from(value))
  /\ UNCHANGED <<usize_bytes, file, png>>

\* Chunk::try_from(chunk.as_bytes())
ChunkRoundTrip(t, d) ==
  /\ Idle
  /\ LET chunk == Chunk_new(t, d)
     IN Call("Chunk::round_trip", chunk, Chunk_try_from(as_bytes(chunk)))
  /\ UNCHANGED <<usize_bytes, file, png>>

\* tests::test_valid_chunk_from_bytes: the record is chained from the u32
\* length, the tag, the message and the u32 CRC, and handed to try_from
ChunkFromRecord(tag, message_bytes) ==
  /\ Idle
  /\ LET data_length == u32_of(Len(message_bytes))
         crc32 == checksum(tag \o message_bytes)
         chunk_data == u32_to_be_bytes(data_length) \o tag \o message_bytes
                         \o u32_to_be_bytes(crc32)
     IN Call("Chunk::from_record", [tag |-> tag, data |-> message_bytes],
             Chunk_try_from(chunk_data))
  /\ UNCHANGED <<usize_bytes, file, png>>

\* the accessors of a parsed chunk
ChunkAccessors ==
  /\ op \in {"Chunk::try_from", "Chunk::from_record"}
  /\ result.kind = "Ok"
  /\ Call("Chunk::accessors", result.val,
          [length |-> length(result.val),
           chunk_type |-> ChunkType_to_string(chunk_type(result.val)),
           data |-> data(result.val),
           crc |-> u32_to_be_bytes(crc(result.val))])
  /\ UNCHANGED <<usize_bytes, file, png>>

InitChunk ==
  /\ usize_bytes \in UsizeWidths
  /\ file = STANDARD_HEADER
  /\ png = EmptyPng
  /\ op = "idle" /\ input = <<>> /\ result = <<>>

NextChunk ==
  \/ \E t \in Tags, d \in Payloads : ChunkAsBytes(t, d)
  \/ \E value \in Slices : ChunkTryFrom(value)
  \/ \E t \in Tags, d \in Payloads : ChunkRoundTrip(t, d)
  \/ \E t \in Tags, d \in Payloads : ChunkFromRecord(t, d)
  \/ ChunkAccessors
  \/ Return

SpecChunk == InitChunk /\ [][NextChunk]_vars

----------------------------------------------------------------------------
(* Png, the chunk container: the 8-byte signature and the ordered chunks.  *)

\* a chunk as a standard PNG record: length, type, payload, CRC
WireRecord(c) ==
  u32_to_be_bytes(u32_of(Len(c.data))) \o c.chunk_type \o c.data
    \o u32_to_be_bytes(checksum(c.chunk_type \o c.data))

RECURSIVE WireRecords(_)
WireRecords(cs) == IF cs = <<>> THEN <<>> ELSE WireRecord(Head(cs)) \o WireRecords(Tail(cs))

\* the declared length at offset off leaves fewer than n + 12 bytes.  The
\* buffers are far shorter than 2^24 bytes, so a length with a non-zero top
\* byte always does.
Truncated(bs, off) ==
  \/ Len(bs) - off < 4
  \/ bs[off + 1] # 0
  \/ (bs[off + 2] * 256 + bs[off + 3]) * 256 + bs[off + 4] + 12 > Len(bs) - off

RECURSIVE ParseChunks(_, _, _)
ParseChunks(bs, off, acc) ==
  IF off = Len(bs) THEN Ok(acc)
  ELSE IF Truncated(bs, off) THEN Err("TruncatedChunk")
  ELSE LET n == (bs[off + 2] * 256 + bs[off + 3]) * 256 + bs[off + 4]
           r == Chunk_try_from(SubSeq(bs, off + 5, off + n + 12))
       IN IF r.kind # "Ok" THEN r
          ELSE ParseChunks(bs, off + n + 12, Append(acc, r.val))

\* impl TryFrom<&[u8]> for Png
Png_try_from(bs) ==
  IF Len(bs) < 8 \/ SubSeq(bs, 1, 8) # STANDARD_HEADER THEN Err("BadSignature")
  ELSE LET r == ParseChunks(bs, 8, <<>>)
       IN IF r.kind # "Ok" THEN r
          ELSE Ok([header |-> SubSeq(bs, 1, 8), chunks |-> r.val])

append_chunk(self, chunk) == [self EXCEPT !.chunks = Append(@, chunk)]

\* the positions of the chunks whose type renders to type_str
Matching(self, type_str) ==
  {i \in 1..Len(self.chunks) : ChunkType_to_string(self.chunks[i].chunk_type) = type_str}

Min(S) == CHOOSE i \in S : \A j \in S : i <= j

chunk_by_type(self, type_str) ==
  IF Matching(self, type_str) = {} THEN <<>>
  ELSE <<self.chunks[Min(Matching(self, type_str))]>>

\* the result and the container after the call
remove_first_chunk(self, type_str) ==
  IF Matching(self, type_str) = {}
  THEN [result |-> Err("ChunkNotFound"), png |-> self]
  ELSE LET i == Min(Matching(self, type_str))
       IN [result |-> Ok(self.chunks[i]),
           png |-> [self EXCEPT !.chunks = SubSeq(@, 1, i - 1) \o SubSeq(@, i + 1, Len(@))]]

RECURSIVE ChunksAsBytes(_)
ChunksAsBytes(cs) == IF cs = <<>> THEN <<>> ELSE as_bytes(Head(cs)) \o ChunksAsBytes(Tail(cs))

Png_as_bytes(self) == self.header \o ChunksAsBytes(self.chunks)

----------------------------------------------------------------------------
(* Container operations and the commands of main.rs.                       *)

\* "IHDR" and "ruSt"
PngTags == {<<73, 72, 68, 82>>, <<114, 117, 83, 116>>}

PngPayloads == {<<>>, <<65>>}

PngChunks == {Chunk_new(t, d) : t \in PngTags, d \in PngPayloads}

\* "ruSt", "IHDR", "zzzz"
TypeStrs == {<<114, 117, 83, 116>>, <<73, 72, 68, 82>>, <<122, 122, 122, 122>>}

\* the chunk types given to encode: "ruSt", "Ru1t", "ruS"
EncodeTypeStrs == {<<114, 117, 83, 116>>, <<82, 117, 49, 116>>, <<114, 117, 83>>}

\* the message given to encode: U+00E9, 2 bytes
DataStrs == {<<233>>}

\* the file found on disk: the signature and an IHDR record
InitFiles == {STANDARD_HEADER \o WireRecord(Chunk_new(<<73, 72, 68, 82>>, <<65>>))}

\* buffers handed to the parser: standard streams, an empty buffer, a bad
\* signature, a truncated record and a record whose CRC is wrong
ParseInputs ==
  {STANDARD_HEADER,
   STANDARD_HEADER \o WireRecord(Chunk_new(<<114, 117, 83, 116>>, <<65>>))
                   \o WireRecord(Chunk_new(<<114, 117, 83, 116>>, <<>>)),
   <<>>,
   <<137, 80, 78, 71, 13, 10, 26, 11>>,
   STANDARD_HEADER \o <<0, 0, 0, 100, 73, 72, 68, 82, 0, 0>>,
   STANDARD_HEADER \o <<0, 0, 0, 0, 73, 72, 68, 82, 0, 0, 0, 0>>}

PngParse(bs) ==
  /\ Idle
  /\ LET r == Png_try_from(bs)
     IN /\ Call("Png::try_from", bs, r)
        /\ png' = IF r.kind = "Ok" THEN r.val ELSE png
  /\ UNCHANGED <<usize_bytes, file>>

PngAppendChunk(chunk) ==
  /\ Idle
  /\ Len(png.chunks) < MaxChunks
  /\ png' = append_chunk(png, chunk)
  /\ Call("Png::append_chunk", chunk, <<>>)
  /\ UNCHANGED <<usize_bytes, file>>

PngChunkByType(type_str) ==
  /\ Idle
  /\ Call("Png::chunk_by_type", type_str, chunk_by_type(png, type_str))
  /\ UNCHANGED <<usize_bytes, file, png>>

PngRemoveFirstChunk(type_str) ==
  /\ Idle
  /\ LET r == remove_first_chunk(png, type_str)
     IN /\ png' = r.png
        /\ Call("Png::remove_first_chunk", type_str, r.result)
  /\ UNCHANGED <<usize_bytes, file>>

PngAsBytes ==
  /\ Idle
  /\ Call("Png::as_bytes", png, Png_as_bytes(png))
  /\ UNCHANGED <<usize_bytes, file, png>>

\* Png::try_from(png.as_bytes())
PngRoundTrip ==
  /\ Idle
  /\ Call("Png::round_trip", png, Png_try_from(Png_as_bytes(png)))
  /\ UNCHANGED <<usize_bytes, file, png>>

\* fn create_png: the file is read and parsed
create_png == Png_try_from(file)

\* fn encode
encode(chunk_type_arg, data_arg) ==
  /\ Idle
  /\ LET parsed == create_png
         ct == ChunkType_from_str(chunk_type_arg)
     IN IF parsed.kind # "Ok"
        THEN Call("encode", <<chunk_type_arg, data_arg>>, parsed) /\ file' = file
        ELSE IF ct.kind # "Ok"
        THEN Call("encode", <<chunk_type_arg, data_arg>>, ct) /\ file' = file
        ELSE LET new_chunk == Chunk_new(ct.val, str_bytes(data_arg))
                 appended == append_chunk(parsed.val, new_chunk)
             IN /\ Len(parsed.val.chunks) < MaxChunks
                /\ file' = Png_as_bytes(appended)
                /\ Call("encode", <<chunk_type_arg, data_arg>>, Ok(<<>>))
  /\ UNCHANGED <<usize_bytes, png>>

\* fn remove
remove(chunk_type_arg) ==
  /\ Idle
  /\ LET parsed == create_png
     IN IF parsed.kind # "Ok"
        THEN Call("remove", chunk_type_arg, parsed) /\ file' = file
        ELSE LET r == remove_first_chunk(parsed.val, chunk_type_arg)
             IN IF r.result.kind # "Ok"
                THEN Call("remove", chunk_type_arg, r.result) /\ file' = file
                ELSE /\ file' = Png_as_bytes(r.png)
                     /\ Call("remove", chunk_type_arg, Ok(<<>>))
  /\ UNCHANGED <<usize_bytes, png>>

InitPng ==
  /\ usize_bytes \in UsizeWidths
  /\ file \in InitFiles
  /\ png = Png_try_from(file).val
  /\ op = "idle" /\ input = <<>> /\ result = <<>>

NextPng ==
  \/ \E bs \in ParseInputs \cup {file} : PngParse(bs)
  \/ \E chunk \in PngChunks : PngAppendChunk(chunk)
  \/ \E type_str \in TypeStrs : PngChunkByType(type_str)
  \/ \E type_str \in TypeStrs : PngRemoveFirstChunk(type_str)
  \/ PngAsBytes
  \/ PngRoundTrip
  \/ \E chunk_type_arg \in EncodeTypeStrs, data_arg \in DataStrs : encode(chunk_type_arg, data_arg)
  \/ \E chunk_type_arg \in TypeStrs : remove(chunk_type_arg)
  \/ Return

SpecPng == InitPng /\ [][NextPng]_vars

----------------------------------------------------------------------------
(* Properties of ChunkType, checked under SpecChunkType.                   *)

Letters == (65..90) \cup (97..122)

\* the number of bytes of the UTF-8 encoding of a code point
Utf8Width(cp) == IF cp < 128 THEN 1 ELSE IF cp < 2048 THEN 2 ELSE IF cp < 65536 THEN 3 ELSE 4

RECURSIVE ByteLength(_)
ByteLength(s) == IF s = <<>> THEN 0 ELSE Utf8Width(Head(s)) + ByteLength(Tail(s))

\* C7: try_from on 4 bytes succeeds exactly when all four are ASCII letters,
\* and then bytes() is the input; from_str fails with the length error
\* exactly when the string is not 4 bytes long, and on a 4-byte string it
\* returns what try_from returns on the string's bytes.
C7_Construction ==
  /\ op = "ChunkType::try_from" =>
       /\ result.kind = "Ok" <=> (\A i \in 1..4 : input[i] \in Letters)
       /\ result.kind = "Ok" => bytes(result.val) = input
       /\ result.kind # "Ok" => result = Err("InvalidChunkType")
  /\ op = "ChunkType::from_str" =>
       /\ result = Err("InvalidLength") <=> ByteLength(input) # 4
       /\ ByteLength(input) = 4 => result = ChunkType_try_from(str_bytes(input))
  /\ op = "ChunkType::bytes" => result = input

\* a string of 2 characters and 4 bytes passes the length check
C7_Witness ==
  /\ op = "ChunkType::from_str"
  /\ Len(input) = 2
  /\ ByteLength(input) = 4
  /\ result = Err("InvalidChunkType")

\* C8: each predicate is a function of bit 5 of one byte: critical, public
\* and reserved-bit-valid when the bit is clear in bytes 0, 1 and 2, safe to
\* copy when it is set in byte 3; is_valid is is_reserved_bit_valid.
C8_PropertyBits ==
  /\ op = "ChunkType::is_critical" => (result <=> (input[1] \div 32) % 2 = 0)
  /\ op = "ChunkType::is_public" => (result <=> (input[2] \div 32) % 2 = 0)
  /\ op = "ChunkType::is_reserved_bit_valid" => (result <=> (input[3] \div 32) % 2 = 0)
  /\ op = "ChunkType::is_safe_to_copy" => (result <=> (input[4] \div 32) % 2 = 1)
  /\ op = "ChunkType::is_valid" => (result <=> (input[3] \div 32) % 2 = 0)

\* is_valid answered false for a tag whose third letter is lower case
C8_Witness ==
  /\ op = "ChunkType::is_valid"
  /\ input[3] = 122
  /\ result = FALSE

\* C10: a constructed ChunkType holds four ASCII letters, its rendering is
\* the 4-character tag, and from_str of the rendering and try_from of the
\* bytes both give the ChunkType back.
C10_DisplayRoundTrip ==
  /\ Constructed => \A i \in 1..4 : result.val[i] \in Letters
  /\ op = "ChunkType::to_string" =>
       /\ Len(result) = 4
       /\ \A i \in 1..4 : result[i] = input[i]
       /\ ChunkType_from_str(result) = Ok(input)
       /\ ChunkType_try_from(bytes(input)) = Ok(input)

\* a tag constructed by from_str was rendered
C10_Witness ==
  /\ op = "ChunkType::to_string"
  /\ result = <<65, 122, 65, 122>>

----------------------------------------------------------------------------
(* Properties of Chunk, checked under SpecChunk.                           *)

\* C1: as_bytes returns n + 12 bytes: the 4-byte big-endian length, the 4
\* type bytes, the payload, and the 4-byte big-endian CRC of type ++ payload.
C1_AsBytesLayout ==
  op = "Chunk::as_bytes" =>
    /\ Len(result) = Len(input.data) + 12
    /\ result = u32_to_be_bytes(u32_of(Len(input.data))) \o input.chunk_type
                   \o input.data
                   \o u32_to_be_bytes(checksum(input.chunk_type \o input.data))

\* C2: try_from of a chunk's as_bytes succeeds with the chunk's type and payload.
C2_ChunkRoundTrip ==
  op = "Chunk::round_trip" =>
    /\ result.kind = "Ok"
    /\ result.val.chunk_type = input.chunk_type
    /\ result.val.data = input.data

\* C3: try_from of the complete record be32(len) ++ tag ++ data ++ be32(crc)
\* succeeds with that length, tag, payload and CRC.
C3_RecordParses ==
  op = "Chunk::from_record" =>
    /\ result.kind = "Ok"
    /\ length(result.val) = Len(input.data)
    /\ ChunkType_to_string(chunk_type(result.val)) = input.tag
    /\ data(result.val) = input.data
    /\ crc(result.val) = checksum(input.tag \o input.data)

\* C4: try_from never panics, and every slice of fewer than 8 bytes is TooShort.
C4_ShortSlices ==
  op = "Chunk::try_from" =>
    /\ result.kind \in {"Ok", "Err"}
    /\ Len(input) < 8 => result = Err("TooShort")

----------------------------------------------------------------------------
(* Properties of the container, checked under SpecPng.                     *)

\* C6: a container parses back from its as_bytes to the same signature and
\* the same chunks in the same order, and the file encode writes parses.
C6_ContainerRoundTrip ==
  /\ op = "Png::round_trip" =>
       /\ result.kind = "Ok"
       /\ result.val.header = input.header
       /\ result.val.chunks = input.chunks
  /\ (op = "encode" /\ result.kind = "Ok") => Png_try_from(file).kind = "Ok"

\* the tag t renders to the string s
Renders(t, s) == Len(s) = 4 /\ \A i \in 1..4 : s[i] = t[i]

====
